---- MODULE Spec2Model ----
(***************************************************************************)
(* Model of taggedcalendar.py: TaggedTextCalendar (tag store and the day,  *)
(* week, month and year formatters) and locale_context (the scoped switch  *)
(* of the process-wide LC_TIME locale used by LocaleTaggedTextCalendar).   *)
(*                                                                         *)
(* A Python string is a sequence of one-character strings; ESC stands for  *)
(* the single character '\033'.  A tag template 'pre%spost' is the record  *)
(* [pre, post]; `tag % s` is pre \o s \o post.                             *)
(***************************************************************************)
EXTENDS Integers, Sequences, FiniteSets, TLC

\* ------------------------------------------------------------------ bounds
MinYear == 2023
MaxMonth == 2
MaxMonthsPerRow == 5
MaxWidth == 3
MaxPad == 2
MaxCalls == 2

Years == {MinYear}
Months == 1..MaxMonth
Widths == 0..MaxWidth
Pads == 0..MaxPad

\* ----------------------------------------------------------------- strings
ESC == "ESC"
NL == "\n"
Whitespace == {" ", "\t", "\n", "\r", "\f"}

Max(a, b) == IF a >= b THEN a ELSE b
Min(a, b) == IF a <= b THEN a ELSE b

\* c * n
Rep(c, n) == [i \in 1..Max(0, n) |-> c]

\* str.center(width): the string itself when it is already wide enough,
\* otherwise padded with spaces, the extra space of an odd margin going left
\* only when the width is odd too.
center(s, width) ==
    IF Len(s) >= width THEN s
    ELSE LET marg == width - Len(s)
             left == (marg \div 2) + (IF marg % 2 = 1 /\ width % 2 = 1 THEN 1 ELSE 0)
         IN  Rep(" ", left) \o s \o Rep(" ", marg - left)

\* str.rstrip(): drops trailing whitespace.
RECURSIVE rstriplen(_, _)
rstriplen(s, n) ==
    IF n = 0 \/ s[n] \notin Whitespace THEN n ELSE rstriplen(s, n - 1)

rstrip(s) == SubSeq(s, 1, rstriplen(s, Len(s)))

\* sep.join(parts)
RECURSIVE join(_, _)
join(parts, sep) ==
    IF Len(parts) = 0 THEN <<>>
    ELSE IF Len(parts) = 1 THEN parts[1]
    ELSE parts[1] \o sep \o join(Tail(parts), sep)

\* ''.join(parts)
concat(parts) == join(parts, <<>>)

DigitChar == <<"0", "1", "2", "3", "4", "5", "6", "7", "8", "9">>

\* repr(n) / '%i' % n for n >= 0
RECURSIVE repr(_)
repr(n) ==
    IF n < 10 THEN <<DigitChar[n + 1]>>
    ELSE repr(n \div 10) \o <<DigitChar[(n % 10) + 1]>>

\* '%2i' % n
fmt2i(n) == LET d == repr(n) IN Rep(" ", 2 - Len(d)) \o d

\* ------------------------------------------------------------ example tags
TAG_RED == [pre |-> <<ESC, "[", "0", ";", "3", "1", "m">>, post |-> <<ESC, "[", "0", "m">>]
TAG_NONE == [pre |-> <<ESC, "[", "0", "m">>, post |-> <<ESC, "[", "0", "m">>]
Tags == {TAG_RED, TAG_NONE}

\* tag % s
ApplyTag(tag, s) == tag.pre \o s \o tag.post

\* ------------------------------------------------- datetime.date (stdlib)
\* A date is [year, month, day]; its ordinal counts days from 0001-01-01 = 1.
Date(y, m, d) == [year |-> y, month |-> m, day |-> d]

IsLeap(y) == (y % 4 = 0) /\ ((y % 100 # 0) \/ (y % 400 = 0))

DaysInMonth(y, m) ==
    IF m = 2 THEN (IF IsLeap(y) THEN 29 ELSE 28)
    ELSE IF m \in {4, 6, 9, 11} THEN 30 ELSE 31

DaysBeforeYear(y) ==
    LET p == y - 1 IN (p * 365) + (p \div 4) - (p \div 100) + (p \div 400)

RECURSIVE DaysBeforeMonth(_, _)
DaysBeforeMonth(y, m) ==
    IF m = 1 THEN 0 ELSE DaysBeforeMonth(y, m - 1) + DaysInMonth(y, m - 1)

toordinal(date) ==
    DaysBeforeYear(date.year) + DaysBeforeMonth(date.year, date.month) + date.day

fromordinal(n) ==
    LET y == CHOOSE yy \in (MinYear - 1)..(MinYear + 1) :
                 DaysBeforeYear(yy) < n /\ n <= DaysBeforeYear(yy + 1)
        r == n - DaysBeforeYear(y)
        m == CHOOSE mm \in 1..12 :
                 DaysBeforeMonth(y, mm) < r /\ r <= DaysBeforeMonth(y, mm) + DaysInMonth(y, mm)
    IN  Date(y, m, r - DaysBeforeMonth(y, m))

\* date.weekday(): Monday is 0
weekday(date) == (toordinal(date) + 6) % 7

\* --------------------------------------------- calendar.Calendar (stdlib)
\* Calendar.monthdatescalendar(year, month) for a calendar whose first
\* weekday is fwd: itermonthdates starts on the first day of the week that
\* holds the 1st and stops at the first week start outside the month; the
\* dates are cut into weeks of seven.
itermonthweeks(fwd, year, month) ==
    LET first == Date(year, month, 1)
        days == (weekday(first) - fwd) % 7
        start == toordinal(first) - days
        nweeks == CHOOSE k \in 1..6 :
                      /\ fromordinal(start + (7 * k)).month # month
                      /\ \A j \in 1..(k - 1) : fromordinal(start + (7 * j)).month = month
    IN  [w \in 1..nweeks |-> [i \in 1..7 |-> fromordinal(start + (7 * (w - 1)) + (i - 1))]]

\* The grids of every month of the modelled years, computed once.
monthgrids == [fwd \in 0..6, y \in Years, m \in 1..12 |-> itermonthweeks(fwd, y, m)]

monthdatescalendar(fwd, year, month) == monthgrids[fwd, year, month]

\* Calendar.yeardatescalendar(year, width): the twelve month grids in rows
\* of `width` months.
yeardatescalendar(fwd, year, width) ==
    LET nrows == (12 + width - 1) \div width
    IN  [r \in 1..nrows |->
            [c \in 1..Min(width, 12 - (width * (r - 1))) |->
                monthdatescalendar(fwd, year, (width * (r - 1)) + c)]]

\* Calendar.iterweekdays()
iterweekdays(fwd) == [i \in 1..7 |-> (fwd + i - 1) % 7]

month_name ==
    << <<"J", "a", "n", "u", "a", "r", "y">>,
       <<"F", "e", "b", "r", "u", "a", "r", "y">>,
       <<"M", "a", "r", "c", "h">>,
       <<"A", "p", "r", "i", "l">>,
       <<"M", "a", "y">>,
       <<"J", "u", "n", "e">>,
       <<"J", "u", "l", "y">>,
       <<"A", "u", "g", "u", "s", "t">>,
       <<"S", "e", "p", "t", "e", "m", "b", "e", "r">>,
       <<"O", "c", "t", "o", "b", "e", "r">>,
       <<"N", "o", "v", "e", "m", "b", "e", "r">>,
       <<"D", "e", "c", "e", "m", "b", "e", "r">> >>

day_name ==
    << <<"M", "o", "n", "d", "a", "y">>,
       <<"T", "u", "e", "s", "d", "a", "y">>,
       <<"W", "e", "d", "n", "e", "s", "d", "a", "y">>,
       <<"T", "h", "u", "r", "s", "d", "a", "y">>,
       <<"F", "r", "i", "d", "a", "y">>,
       <<"S", "a", "t", "u", "r", "d", "a", "y">>,
       <<"S", "u", "n", "d", "a", "y">> >>

day_abbr == [i \in 1..7 |-> SubSeq(day_name[i], 1, 3)]

\* TextCalendar.formatweekday(day, width)
formatweekday(day, width) ==
    LET names == IF width >= 9 THEN day_name ELSE day_abbr
    IN  center(SubSeq(names[day + 1], 1, Min(width, Len(names[day + 1]))), width)

\* TextCalendar.formatweekheader(width)
formatweekheader(fwd, width) ==
    join([i \in 1..7 |-> formatweekday(iterweekdays(fwd)[i], width)], <<" ">>)

\* TextCalendar.formatmonthname(theyear, themonth, width, withyear)
formatmonthname(theyear, themonth, width, withyear) ==
    LET s == IF withyear THEN month_name[themonth] \o <<" ">> \o repr(theyear)
             ELSE month_name[themonth]
    IN  center(s, width)

\* calendar.formatstring(cols, colwidth, spacing)
formatstring(cols, colwidth, spacing) ==
    join([i \in 1..Len(cols) |-> center(cols[i], colwidth)], Rep(" ", spacing))

\* --------------------------------------------------- locale (stdlib, libc)
\* An LC_TIME locale 'lang.enc@mod' is [lang, enc, mod]; 'C' has no encoding
\* and no modifier.
Locale(lang, enc, mod) == [lang |-> lang, enc |-> enc, mod |-> mod]
LOCALE_C == Locale("C", "", "")

\* The locales installed on the machine, and the locale arguments tried.
Supported ==
    {LOCALE_C, Locale("en_US", "UTF-8", ""), Locale("fr_FR", "UTF-8", ""),
     Locale("sr_RS", "UTF-8", ""), Locale("sr_RS", "UTF-8", "latin")}
LocaleSpecs ==
    {LOCALE_C, Locale("fr_FR", "UTF-8", ""), Locale("sr_RS", "UTF-8", "latin"),
     Locale("xx_XX", "UTF-8", "")}

\* locale.getlocale(LC_TIME): the (language code, encoding) pair parsed from
\* the locale's name; a modifier is not part of the pair, 'C' is (None, None).
getlocale(cur) ==
    IF cur = LOCALE_C THEN <<"None", "None">> ELSE <<cur.lang, cur.enc>>

\* locale.setlocale(LC_TIME, (language code, encoding)): the locale named
\* 'language.encoding', 'C' for (None, None).
buildlocale(pair) ==
    IF pair[1] = "None" THEN LOCALE_C
    ELSE Locale(pair[1], IF pair[2] = "None" THEN "" ELSE pair[2], "")

NoLookup == [kind |-> "none", index |-> 0]

\* ------------------------------------------------------ TaggedTextCalendar
VARIABLES
    firstweekday,   \* Calendar.firstweekday, fixed at construction
    tags,           \* self._tags: date -> tag template
    op,             \* the method called last ("init" after construction)
    args,           \* the arguments of that call
    hit,            \* whether the date of that call had a tag when it was made
    field,          \* formatday: `result` before the tag template is applied
    value,          \* the string that call returned (<<>> for None)
    rows,           \* formatyear: per row, its row_months and its lists `weeks`
    repeat,         \* whether that call repeats the call before it, arguments included
    calls,          \* number of method calls made on the calendar so far
    lc_time,        \* process-wide LC_TIME locale
    self_locale,    \* locale_context.locale
    oldlocale,      \* locale_context.oldlocale
    encoding,       \* what `with locale_context(...) as encoding` binds
    entry_locale,   \* LC_TIME locale when the with statement was entered
    lookup,         \* the name lookup running inside the with block
    name,           \* the name that lookup returned
    pc              \* position in the with statement

calvars == <<firstweekday, tags, op, args, hit, field, value, rows, repeat, calls>>
locvars == <<lc_time, self_locale, oldlocale, encoding, entry_locale, lookup, name, pc>>
vars == <<calvars, locvars>>

\* The dates on which the model adds and removes tags: a day inside January
\* and February of MinYear, and a January day that the February grid shows
\* as an overflow day.
TagDates == {Date(MinYear, 1, 31), Date(MinYear, 2, 15), Date(MinYear, 1, 9)}

NoDate == Date(0, 0, 0)
NoTag == [pre |-> <<>>, post |-> <<>>]
NoArgs ==
    [date |-> NoDate, tag |-> NoTag, display |-> FALSE, year |-> 0, month |-> 0,
     width |-> 0, pad |-> 0, spacing |-> 0, months |-> 0]

\* dayfield without the call of center
dayfield_uncentered(date, display, width) ==
    IF display THEN fmt2i(date.day) ELSE <<>>

\* dayfield centered in one column too many
dayfield_wide(date, display, width) ==
    center(IF display THEN fmt2i(date.day) ELSE <<>>, width + 1)

\* formatday, lines 86-89: the day number (or nothing), centered
dayfield(date, display, width) ==
    LET result == IF display THEN fmt2i(date.day) ELSE <<>>
    IN  center(result, width)

\* formatday(date, display, width)
formatday(t, date, display, width) ==
    LET result == dayfield(date, display, width)
    IN  IF date \in DOMAIN t THEN ApplyTag(t[date], result) ELSE result

\* formatweek(days, width, day_sep): days is a list of (date, display) pairs
formatweek(t, days, width, day_sep) ==
    join([i \in 1..Len(days) |-> formatday(t, days[i][1], days[i][2], width)], day_sep)

\* formatmonth_parts without the clamp of pad (line 114)
formatmonth_parts_noclamp(t, fwd, year, month, width0, pad0) ==
    LET width == Max(2, width0)
        pad == pad0
        monthname == formatmonthname(year, month, ((width + 1) * 7) - 1, TRUE)
        weeknames == formatweekheader(fwd, width)
        cal == monthdatescalendar(fwd, year, month)
        weekparts == [k \in 1..(2 * Len(cal)) |->
                        IF k % 2 = 1
                        THEN LET week == cal[(k + 1) \div 2]
                                 days == [i \in 1..7 |-> <<week[i], week[i].month = month>>]
                             IN  rstrip(formatweek(t, days, width, <<" ">>))
                        ELSE Rep(NL, pad)]
    IN  <<rstrip(monthname), Rep(NL, pad), rstrip(weeknames), Rep(NL, pad)>> \o weekparts

\* formatmonth, lines 116-128: the list `result`
formatmonth_parts(t, fwd, year, month, width0, pad0) ==
    LET width == Max(2, width0)
        pad == Max(1, pad0)
        monthname == formatmonthname(year, month, ((width + 1) * 7) - 1, TRUE)
        weeknames == formatweekheader(fwd, width)
        cal == monthdatescalendar(fwd, year, month)
        weekparts == [k \in 1..(2 * Len(cal)) |->
                        IF k % 2 = 1
                        THEN LET week == cal[(k + 1) \div 2]
                                 days == [i \in 1..7 |-> <<week[i], week[i].month = month>>]
                             IN  rstrip(formatweek(t, days, width, <<" ">>))
                        ELSE Rep(NL, pad)]
    IN  <<rstrip(monthname), Rep(NL, pad), rstrip(weeknames), Rep(NL, pad)>> \o weekparts

\* formatmonth(year, month, width, pad)
formatmonth(t, fwd, year, month, width, pad) ==
    concat(formatmonth_parts(t, fwd, year, month, width, pad))

\* TaggedTextCalendar(firstweekday, tag_today): the store holds one tag, for
\* today.  The command line passes SUNDAY (6) or MONDAY (0).
CalInit ==
    /\ firstweekday \in {0, 6}
    /\ \E today \in TagDates, tag_today \in Tags : tags = (today :> tag_today)
    /\ op = "init"
    /\ args = NoArgs
    /\ hit = FALSE
    /\ field = <<>>
    /\ value = <<>>
    /\ rows = <<>>
    /\ repeat = FALSE
    /\ calls = 0

\* The process starts in the C locale; no with statement has run.
GuardInit ==
    /\ lc_time = LOCALE_C
    /\ oldlocale = <<>>
    /\ encoding = "unbound"
    /\ entry_locale = LOCALE_C
    /\ lookup = NoLookup
    /\ name = "none"
    /\ pc = "idle"

Init == CalInit /\ GuardInit /\ self_locale = LOCALE_C

\* addTag that rebinds self._tags to a new dictionary holding only the new tag
addTag_reset(date, tag) ==
    /\ calls < MaxCalls
    /\ tags' = (date :> tag)
    /\ op' = "addTag"
    /\ args' = [NoArgs EXCEPT !.date = date, !.tag = tag]
    /\ hit' = (date \in DOMAIN tags)
    /\ field' = <<>>
    /\ value' = <<>>
    /\ rows' = <<>>
    /\ repeat' = (op = "addTag" /\ args = args')
    /\ calls' = calls + 1
    /\ UNCHANGED <<firstweekday, locvars>>

\* addTag(date, tag)
addTag(date, tag) ==
    /\ calls < MaxCalls
    /\ tags' = [d \in (DOMAIN tags) \cup {date} |-> IF d = date THEN tag ELSE tags[d]]
    /\ op' = "addTag"
    /\ args' = [NoArgs EXCEPT !.date = date, !.tag = tag]
    /\ hit' = (date \in DOMAIN tags)
    /\ field' = <<>>
    /\ value' = <<>>
    /\ rows' = <<>>
    /\ repeat' = (op = "addTag" /\ args = args')
    /\ calls' = calls + 1
    /\ UNCHANGED <<firstweekday, locvars>>

\* removeTag whose membership test is inverted: it never pops a stored tag
removeTag_inverted(date) ==
    /\ calls < MaxCalls
    /\ tags' = tags
    /\ op' = "removeTag"
    /\ args' = [NoArgs EXCEPT !.date = date]
    /\ hit' = (date \in DOMAIN tags)
    /\ field' = <<>>
    /\ value' = <<>>
    /\ rows' = <<>>
    /\ repeat' = (op = "removeTag" /\ args = args')
    /\ calls' = calls + 1
    /\ UNCHANGED <<firstweekday, locvars>>

\* removeTag(date)
removeTag(date) ==
    /\ calls < MaxCalls
    /\ tags' = IF date \in DOMAIN tags
               THEN [d \in (DOMAIN tags) \ {date} |-> tags[d]]
               ELSE tags
    /\ op' = "removeTag"
    /\ args' = [NoArgs EXCEPT !.date = date]
    /\ hit' = (date \in DOMAIN tags)
    /\ field' = <<>>
    /\ value' = <<>>
    /\ rows' = <<>>
    /\ repeat' = (op = "removeTag" /\ args = args')
    /\ calls' = calls + 1
    /\ UNCHANGED <<firstweekday, locvars>>

\* a direct call of formatday(date, display, width)
FormatDay(date, display, width) ==
    /\ calls < MaxCalls
    /\ op' = "formatday"
    /\ args' = [NoArgs EXCEPT !.date = date, !.display = display, !.width = width]
    /\ hit' = (date \in DOMAIN tags)
    /\ field' = dayfield(date, display, width)
    /\ value' = formatday(tags, date, display, width)
    /\ rows' = <<>>
    /\ repeat' = (op = "formatday" /\ args = args')
    /\ calls' = calls + 1
    /\ UNCHANGED <<firstweekday, tags, locvars>>

\* FormatMonth whose day formatter pops the tag it applies: the tags of the
\* dates of the month's grid are gone after the call
FormatMonth_pops(year, month, width, pad) ==
    /\ calls < MaxCalls
    /\ op' = "formatmonth"
    /\ args' = [NoArgs EXCEPT !.year = year, !.month = month, !.width = width, !.pad = pad]
    /\ hit' = FALSE
    /\ field' = <<>>
    /\ value' = formatmonth(tags, firstweekday, year, month, width, pad)
    /\ rows' = <<>>
    /\ repeat' = (op = "formatmonth" /\ args = args')
    /\ calls' = calls + 1
    /\ tags' = LET cal == monthdatescalendar(firstweekday, year, month)
                   shown == {cal[w][i] : w \in 1..Len(cal), i \in 1..7}
               IN  [d \in (DOMAIN tags) \ shown |-> tags[d]]
    /\ UNCHANGED <<firstweekday, locvars>>

\* formatmonth(year, month, width, pad)
FormatMonth(year, month, width, pad) ==
    /\ calls < MaxCalls
    /\ op' = "formatmonth"
    /\ args' = [NoArgs EXCEPT !.year = year, !.month = month, !.width = width, !.pad = pad]
    /\ hit' = FALSE
    /\ field' = <<>>
    /\ value' = formatmonth(tags, firstweekday, year, month, width, pad)
    /\ rows' = <<>>
    /\ repeat' = (op = "formatmonth" /\ args = args')
    /\ calls' = calls + 1
    /\ UNCHANGED <<firstweekday, tags, locvars>>

\* The dates formatday is called on directly: the tag dates and a day with
\* a one-digit number.
DayDates == TagDates \cup {Date(MinYear, 1, 1)}

TagStep ==
    \/ \E date \in TagDates, tag \in Tags : addTag(date, tag)
    \/ \E date \in TagDates : removeTag(date)

Next ==
    \/ TagStep
    \/ \E date \in DayDates, display \in BOOLEAN, width \in Widths :
           FormatDay(date, display, width)

Spec == Init /\ [][Next]_vars

NextMonth ==
    \/ TagStep
    \/ \E year \in Years, month \in Months, width \in 1..MaxWidth, pad \in Pads :
           FormatMonth(year, month, width, pad)

SpecMonth == Init /\ [][NextMonth]_vars

\* row_months without the clip of end_month at 13: a short last row runs on
\* into the first months
row_months_unclipped(months, idx) ==
    LET start_month == (months * idx) + 1
        end_month == (months * (idx + 1)) + 1
    IN  [i \in 1..(end_month - start_month) |-> ((start_month + i - 2) % 12) + 1]

\* formatyear, lines 157-159: the months of row idx (idx counts from 0)
row_months(months, idx) ==
    LET start_month == (months * idx) + 1
        end_month == Min((months * (idx + 1)) + 1, 13)
    IN  [i \in 1..(end_month - start_month) |-> start_month + i - 1]

\* formatyear, lines 171-183: the row's grids with each date's display flag
thisrow(row, rm) ==
    [cal_idx \in 1..Len(row) |->
        LET cal == row[cal_idx]
            month == rm[cal_idx]
        IN  [w \in 1..Len(cal) |->
                [i \in 1..7 |-> <<cal[w][i], ~(cal[w][i].month # month)>>]]]

\* height taken as the smallest week count of the row
height_min(tr) ==
    CHOOSE h \in {Len(tr[c]) : c \in 1..Len(tr)} : \A c \in 1..Len(tr) : Len(tr[c]) >= h

\* formatyear, line 185
height(tr) ==
    CHOOSE h \in {Len(tr[c]) : c \in 1..Len(tr)} : \A c \in 1..Len(tr) : Len(tr[c]) <= h

\* formatyear, lines 186-192: the list `weeks` of line j (j counts from 0)
weeksline(t, tr, j, width) ==
    [c \in 1..Len(tr) |->
        IF j >= Len(tr[c]) THEN <<>> ELSE formatweek(t, tr[c][j + 1], width, <<" ">>)]

\* formatyear, lines 156-194: what one row computes
yearrow(t, idx, row, months, width) ==
    LET rm == row_months(months, idx)
        tr == thisrow(row, rm)
    IN  [row_months |-> rm,
         lens |-> [c \in 1..Len(tr) |-> Len(tr[c])],
         weeks |-> [j \in 1..height(tr) |-> weeksline(t, tr, j - 1, width)]]

yearrows(t, fwd, year, width0, months) ==
    LET ydc == yeardatescalendar(fwd, year, months)
    IN  [r \in 1..Len(ydc) |-> yearrow(t, r - 1, ydc[r], months, Max(2, width0))]

\* formatyear, lines 160-194: the text one row appends to `result`
yearrowtext(fwd, year, rt, width, pad, spacing) ==
    LET colwidth == ((width + 1) * 7) - 1
        rm == rt.row_months
        names == [i \in 1..Len(rm) |-> formatmonthname(year, rm[i], colwidth, FALSE)]
        header == formatweekheader(fwd, width)
        headers == [i \in 1..Len(rm) |-> header]
        lines == [j \in 1..Len(rt.weeks) |->
                     rstrip(formatstring(rt.weeks[j], colwidth, spacing)) \o Rep(NL, pad)]
    IN  Rep(NL, pad)
        \o rstrip(formatstring(names, colwidth, spacing)) \o Rep(NL, pad)
        \o rstrip(formatstring(headers, colwidth, spacing)) \o Rep(NL, pad)
        \o concat(lines)

\* formatyear(year, width, pad, spacing, months)
formatyear(t, fwd, year, width0, pad0, spacing0, months) ==
    LET width == Max(2, width0)
        pad == Max(1, pad0)
        spacing == Max(2, spacing0)
        colwidth == ((width + 1) * 7) - 1
        yearname == center(repr(year), (colwidth * months) + (spacing * (months - 1)))
        rts == yearrows(t, fwd, year, width0, months)
    IN  rstrip(yearname) \o Rep(NL, pad)
        \o concat([r \in 1..Len(rts) |-> yearrowtext(fwd, year, rts[r], width, pad, spacing)])

\* formatyear(year, width, pad, spacing, months)
FormatYear(year, width, pad, spacing, months) ==
    /\ calls < MaxCalls
    /\ op' = "formatyear"
    /\ args' = [NoArgs EXCEPT !.year = year, !.width = width, !.pad = pad,
                              !.spacing = spacing, !.months = months]
    /\ hit' = FALSE
    /\ field' = <<>>
    /\ value' = formatyear(tags, firstweekday, year, width, pad, spacing, months)
    /\ rows' = yearrows(tags, firstweekday, year, width, months)
    /\ repeat' = (op = "formatyear" /\ args = args')
    /\ calls' = calls + 1
    /\ UNCHANGED <<firstweekday, tags, locvars>>

\* pryear's defaults for width and pad (0, clamped), formatyear's for spacing
NextYear ==
    \/ TagStep
    \/ \E year \in Years, months \in 1..MaxMonthsPerRow :
           FormatYear(year, 0, 0, 6, months)

SpecYear == Init /\ [][NextYear]_vars

\* ------------------------------- LocaleTaggedTextCalendar, locale_context
\* LocaleTaggedTextCalendar(firstweekday, tag_today, locale)
InitLocale == CalInit /\ GuardInit /\ self_locale \in LocaleSpecs

\* What locale_context.__enter__ returns, lines 261-264: it has no return
\* statement.
enter_result(loc) == "None"

\* Whether the lookup inside the with block raises: names[day] and
\* month_name[themonth] raise IndexError past the end of the list.
lookup_raises(lk) ==
    \/ lk.kind = "weekday" /\ lk.index > 6
    \/ lk.kind = "month" /\ lk.index > 12

\* formatweekday / formatmonthname, lines 235-236 and 246-247: the name is
\* decoded when the with statement bound an encoding.
lookup_name(enc) == IF enc # "None" THEN "unicode" ELSE "str"

\* formatweekday(day, width) or formatmonthname(year, themonth, width) is
\* called: `with locale_context(self.locale) as encoding` runs __enter__.
\* setlocale raises locale.Error for a locale that is not installed; the
\* block is then not entered and __exit__ does not run.
Enter(lk) ==
    /\ pc \in {"idle", "done"}
    /\ lookup' = lk
    /\ entry_locale' = lc_time
    /\ oldlocale' = getlocale(lc_time)
    /\ IF self_locale \in Supported
       THEN /\ lc_time' = self_locale
            /\ encoding' = enter_result(self_locale)
            /\ name' = "none"
            /\ pc' = "body"
       ELSE /\ lc_time' = lc_time
            /\ encoding' = "unbound"
            /\ name' = "error"
            /\ pc' = "done"
    /\ UNCHANGED <<calvars, self_locale>>

\* The body of the with statement: the name lookup returns or raises.
Body ==
    /\ pc = "body"
    /\ IF lookup_raises(lookup)
       THEN name' = "error" /\ pc' = "exit_raised"
       ELSE name' = lookup_name(encoding) /\ pc' = "exit_returned"
    /\ UNCHANGED <<calvars, lc_time, self_locale, oldlocale, encoding, entry_locale, lookup>>

\* locale_context.__exit__(*args), run on both ways out of the block
exit_locale(cur, old) ==
    IF buildlocale(old) \in Supported THEN buildlocale(old) ELSE cur

Exit ==
    /\ pc \in {"exit_raised", "exit_returned"}
    /\ lc_time' = exit_locale(lc_time, oldlocale)
    /\ pc' = "done"
    /\ UNCHANGED <<calvars, self_locale, oldlocale, encoding, entry_locale, lookup, name>>

\* The application sets LC_TIME itself between two calendar calls.
SetLocale(loc) ==
    /\ pc \in {"idle", "done"}
    /\ loc \in Supported
    /\ lc_time' = loc
    /\ pc' = "idle"
    /\ UNCHANGED <<calvars, self_locale, oldlocale, encoding, entry_locale, lookup, name>>

Lookups ==
    [kind : {"weekday"}, index : {0, 6, 7}] \cup [kind : {"month"}, index : {1, 12, 13}]

NextLocale ==
    \/ \E lk \in Lookups : Enter(lk)
    \/ Body
    \/ Exit
    \/ \E loc \in Supported : SetLocale(loc)

SpecLocale == InitLocale /\ [][NextLocale]_vars

\* ================================================================== claims
\* ---------------------------------------------------------------- tag store
\* C1: after addTag(d, T) a lookup of d in the tag store returns T, and
\* after removeTag(d) the date d is no longer a key of the store, whatever
\* the store held before.
C1_AddThenRemove ==
    /\ op = "addTag" => (args.date \in DOMAIN tags /\ tags[args.date] = args.tag)
    /\ op = "removeTag" => args.date \notin DOMAIN tags

\* C1 witness: a removeTag has just removed a tag that was in the store.
C1_Witness ==
    op = "removeTag" /\ hit /\ calls = 2 /\ args.date \notin DOMAIN tags

\* C3: each call changes the store only at its own date.  addTag(d, T) binds
\* d to T, also when d already had a tag, and leaves every other date's
\* entry as it was; removeTag(d) leaves every other date's entry as it was
\* and leaves the whole store as it was when d has no tag.  (The store is a
\* mapping, so a date never has two tags.)
OthersKept(d) ==
    \A e \in TagDates \ {d} :
        /\ (e \in DOMAIN tags') <=> (e \in DOMAIN tags)
        /\ (e \in DOMAIN tags) => (tags'[e] = tags[e])

C3_Frame ==
    [][/\ (op' = "addTag" /\ calls' = calls + 1) =>
            /\ DOMAIN tags' = (DOMAIN tags) \cup {args'.date}
            /\ tags'[args'.date] = args'.tag
            /\ OthersKept(args'.date)
       /\ (op' = "removeTag" /\ calls' = calls + 1) =>
            /\ OthersKept(args'.date)
            /\ (args'.date \notin DOMAIN tags) => (tags' = tags)
       /\ DOMAIN tags' \subseteq TagDates]_vars

\* C3 witness: an addTag has replaced the tag of a date that had one, in a
\* store that holds another date too.
C3_Witness ==
    /\ op = "addTag" /\ hit
    /\ Cardinality(DOMAIN tags) >= 2
    /\ tags[args.date] = args.tag

\* ------------------------------------------------------------ day formatter
\* C4 as stated: for every width given to formatday and both values of
\* display, the string before the tag template is applied has length
\* exactly width.
C4_FieldIsWidth_AsStated ==
    op = "formatday" => Len(field) = args.width

\* C4 amended: the field has length exactly width for every width >= 2 (the
\* widths formatmonth and formatyear pass after clamping) and, when display
\* is false, for the widths 0 and 1 too; with display true and a width
\* below 2 it is the two-character day number.
C4_FieldWidth ==
    op = "formatday" =>
        Len(field) = (IF args.display THEN Max(2, args.width) ELSE args.width)

\* C4 witness: a tagged date was formatted at width 3; the field is 3 wide
\* and the returned string is longer by the tag template.
C4_Witness ==
    /\ op = "formatday" /\ hit /\ args.display
    /\ args.width = 3
    /\ Len(field) = 3
    /\ Len(value) = 3 + Len(tags[args.date].pre) + Len(tags[args.date].post)

\* ---------------------------------------------------------- month formatter
\* The lines of a text: its maximal runs of characters other than newline,
\* by the positions where they start and end.
Sorted(S) ==
    [k \in 1..Cardinality(S) |-> CHOOSE i \in S : Cardinality({j \in S : j < i}) = k - 1]

LineStarts(s) ==
    Sorted({i \in 1..Len(s) : s[i] # NL /\ (i = 1 \/ s[i - 1] = NL)})

LineEnds(s) ==
    Sorted({i \in 1..Len(s) : s[i] # NL /\ (i = Len(s) \/ s[i + 1] = NL)})

Lines(s) ==
    [k \in 1..Len(LineStarts(s)) |-> SubSeq(s, LineStarts(s)[k], LineEnds(s)[k])]

\* The number of newline characters that follow line k, up to the next line
\* or the end of the text.
NewlinesAfter(s, k) ==
    (IF k < Len(LineStarts(s)) THEN LineStarts(s)[k + 1] ELSE Len(s) + 1) - LineEnds(s)[k] - 1

\* The grid of the month last formatted, and the week lines it calls for.
ArgGrid == monthdatescalendar(firstweekday, args.year, args.month)

ArgWeekLine(k) ==
    rstrip(formatweek(tags,
                      [i \in 1..7 |-> <<ArgGrid[k][i], ArgGrid[k][i].month = args.month>>],
                      Max(2, args.width), <<" ">>))

ArgColWidth == ((Max(2, args.width) + 1) * 7) - 1

LinesInOrder ==
    /\ LineStarts(value)[1] = 1
    /\ Len(Lines(value)) = 2 + Len(ArgGrid)
    /\ Lines(value)[1] = rstrip(formatmonthname(args.year, args.month, ArgColWidth, TRUE))
    /\ Lines(value)[2] = rstrip(formatweekheader(firstweekday, Max(2, args.width)))
    /\ \A k \in 1..Len(ArgGrid) : Lines(value)[2 + k] = ArgWeekLine(k)

\* C6 as stated: the output of formatmonth is the month-name line, the
\* weekday-header line and one line per week of the grid, in that order,
\* consecutive lines separated by exactly max(1, pad) blank lines (that is,
\* by one newline more than that).
C6_BlankLines_AsStated ==
    op = "formatmonth" =>
        /\ LinesInOrder
        /\ \A k \in 1..(Len(Lines(value)) - 1) :
               NewlinesAfter(value, k) = Max(1, args.pad) + 1

\* C6 amended: the output of formatmonth is the month-name line, the
\* weekday-header line and one line per week of the grid, in that order;
\* each of these lines, the last one included, is followed by exactly
\* max(1, pad) newline characters, so that consecutive lines are separated
\* by max(1, pad) - 1 blank lines.
C6_Newlines ==
    op = "formatmonth" =>
        /\ LinesInOrder
        /\ \A k \in 1..Len(Lines(value)) : NewlinesAfter(value, k) = Max(1, args.pad)

\* C6 witness: a six-week month was formatted with pad = 2; its eight lines
\* are each followed by two newlines.
C6_Witness ==
    /\ op = "formatmonth" /\ args.pad = 2
    /\ Len(Lines(value)) = 8
    /\ \A k \in 1..8 : NewlinesAfter(value, k) = 2

\* The characters that the tag templates add to week k of the grid.
RECURSIVE SumOver(_, _)
SumOver(f, n) == IF n = 0 THEN 0 ELSE f[n] + SumOver(f, n - 1)

TagOverhead(k) ==
    SumOver([i \in 1..7 |->
                IF ArgGrid[k][i] \in DOMAIN tags
                THEN Len(tags[ArgGrid[k][i]].pre) + Len(tags[ArgGrid[k][i]].post)
                ELSE 0], 7)

\* C7 as stated: in any reachable tag-store state, the weekday-header line
\* and every week line of formatmonth's output are at most
\* (max(2, width) + 1) * 7 - 1 characters long.
C7_LineLength_AsStated ==
    op = "formatmonth" =>
        \A k \in 2..Len(Lines(value)) : Len(Lines(value)[k]) <= ArgColWidth

\* C7 amended: the weekday-header line is at most (max(2, width) + 1) * 7 - 1
\* characters long, and a week line is at most that many characters plus the
\* characters of the tag templates wrapped around the tagged dates of its
\* week; a week line with no tagged date stays within the bound.
C7_LineLength ==
    op = "formatmonth" =>
        /\ Len(Lines(value)) = 2 + Len(ArgGrid)
        /\ Len(Lines(value)[2]) <= ArgColWidth
        /\ \A k \in 1..Len(ArgGrid) :
               Len(Lines(value)[2 + k]) <= ArgColWidth + TagOverhead(k)

\* C7 witness: a month was formatted that shows a tagged date; the line of
\* that week is longer than the column bound, another week line is within it.
C7_Witness ==
    /\ op = "formatmonth"
    /\ \E k \in 1..Len(ArgGrid) :
           TagOverhead(k) > 0 /\ Len(Lines(value)[2 + k]) > ArgColWidth
    /\ \E k \in 1..Len(ArgGrid) :
           TagOverhead(k) = 0 /\ Len(Lines(value)[2 + k]) = ArgColWidth

RowSizes == [r \in 1..Len(rows) |-> Len(rows[r].row_months)]

C5_Partition ==
    op = "formatyear" =>
        LET m == args.months
            n == (12 + m - 1) \div m
        IN  /\ Len(rows) = n
            /\ \A r \in 1..n :
                   /\ Len(rows[r].row_months) = (IF r < n THEN m ELSE 12 - (m * (n - 1)))
                   /\ Len(rows[r].lens) = Len(rows[r].row_months)
                   /\ \A i \in 1..Len(rows[r].row_months) :
                          rows[r].row_months[i] = (m * (r - 1)) + i
            /\ \A mm \in 1..12 :
                   Cardinality({<<r, i>> \in (1..n) \X (1..m) :
                                   i <= Len(rows[r].row_months) /\ rows[r].row_months[i] = mm}) = 1
            /\ (m = 3) => (RowSizes = <<3, 3, 3, 3>>)
            /\ (m = 5) => (RowSizes = <<5, 5, 2>>)

\* C5 witness: formatyear was called with months = 5 and made rows of 5, 5
\* and 2 months, the last one November and December.
C5_Witness ==
    /\ op = "formatyear" /\ args.months = 5
    /\ RowSizes = <<5, 5, 2>>
    /\ rows[3].row_months = <<11, 12>>

\* C9: every row of formatyear has as many week lines as the largest week
\* count among its months; on line j each month contributes its own j-th
\* week, formatted, while it has one, and an empty placeholder on every line
\* after its last week.
YearWeek(month, j) ==
    LET cal == monthdatescalendar(firstweekday, args.year, month)
    IN  formatweek(tags, [i \in 1..7 |-> <<cal[j][i], cal[j][i].month = month>>],
                   Max(2, args.width), <<" ">>)

C9_RowHeight ==
    op = "formatyear" =>
        \A r \in 1..Len(rows) :
            LET rm == rows[r].row_months
                count == [c \in 1..Len(rm) |->
                             Len(monthdatescalendar(firstweekday, args.year, rm[c]))]
            IN  /\ \E c \in 1..Len(rm) : Len(rows[r].weeks) = count[c]
                /\ \A c \in 1..Len(rm) : count[c] <= Len(rows[r].weeks)
                /\ \A j \in 1..Len(rows[r].weeks) :
                       /\ Len(rows[r].weeks[j]) = Len(rm)
                       /\ \A c \in 1..Len(rm) :
                              rows[r].weeks[j][c] =
                                  (IF j <= count[c] THEN YearWeek(rm[c], j) ELSE <<>>)

\* C9 witness: a row holds a month of six weeks and a month of fewer; the
\* shorter month has a week on line five and a placeholder on line six.
C9_Witness ==
    /\ op = "formatyear"
    /\ \E r \in 1..Len(rows) :
           /\ Len(rows[r].weeks) = 6
           /\ \E c \in 1..Len(rows[r].row_months) :
                  /\ rows[r].lens[c] = 5
                  /\ rows[r].weeks[5][c] # <<>>
                  /\ rows[r].weeks[6][c] = <<>>

\* ------------------------------------------------------- locale scope guard
\* C2: when a with statement that was entered has been left, by a return or
\* by an error of the name lookup, the process-wide LC_TIME locale is the
\* locale that was active just before it was entered.
C2_LocaleRestored ==
    pc = "done" => lc_time = entry_locale

\* C10: inside the with statement the name lookup is given the encoding of
\* the calendar's locale (none only when that locale has no encoding), and
\* a lookup that returns has decoded the name whenever the locale has an
\* encoding.
C10_EncodingYielded ==
    /\ pc \in {"body", "exit_returned", "exit_raised"} =>
           encoding = (IF self_locale.enc = "" THEN "None" ELSE self_locale.enc)
    /\ pc = "exit_returned" =>
           name = (IF self_locale.enc = "" THEN "str" ELSE "unicode")

====
